---- MODULE Spec2Model ----
(***************************************************************************)
(* GridItem (src/lib/GridItem.jsx): the interaction controller of one grid *)
(* item.  The component instance holds the drag accumulator (dragging,     *)
(* dragPosition) and the resize accumulator (resizing, resizePosition);    *)
(* the host supplies props on every render; the gesture layer delivers     *)
(* drag and resize events; componentDidMount / componentDidUpdate run the  *)
(* external move injector (moveDroppingItem).                              *)
(*                                                                         *)
(* Pixel quantities are integers.  The grid configurations and DOM nodes   *)
(* enumerated below are chosen so that every division the code performs    *)
(* (column width, transformScale) is exact.  JS arrays margin[0],margin[1] *)
(* are the tuples margin[1],margin[2] here.  An optional value (a prop     *)
(* that may be absent, a nullable field) is a sequence of length 0 or 1.   *)
(***************************************************************************)
EXTENDS Integers, Sequences, FiniteSets, TLC

VARIABLES
  props,          \* this.props, as supplied by the host at the last render
  mounted,        \* componentDidMount has run
  dragging,       \* this.dragging
  dragPosition,   \* this.dragPosition
  resizing,       \* this.resizing (<<>> is the falsy value)
  resizePosition, \* this.resizePosition
  renderedPos,    \* the position render() curried into the resize handlers
  last            \* observation of the last operation: inputs, outcome, notification

vars == <<props, mounted, dragging, dragPosition, resizing, resizePosition,
          renderedPos, last>>

----------------------------------------------------------------------------
(* Bounds *)

\* Pixel coordinates of the drag accumulator are kept within -MaxPx..MaxPx.
MaxPx == 50

----------------------------------------------------------------------------
(* Helpers of ./calculateUtils and ./utils (not part of src/) *)

Max(a, b) == IF a >= b THEN a ELSE b

Min(a, b) == IF a <= b THEN a ELSE b

\* Math.round(num / den) for den > 0: the nearest integer, halves upwards.
RoundDiv(num, den) == (2 * num + den) \div (2 * den)

clamp(num, lowerBound, upperBound) == Max(Min(num, upperBound), lowerBound)

calcGridColWidth(pp) ==
  (pp.containerWidth - pp.margin[1] * (pp.cols - 1) - pp.containerPadding[1] * 2)
    \div pp.cols

calcGridItemWHPx(gridUnits, colOrRowSize, marginPx) ==
  colOrRowSize * gridUnits + Max(0, gridUnits - 1) * marginPx

\* pixelToGrid: inverse of the placement formulas, nearest cell, never negative.
calcXY(pp, top, left, w, h) ==
  [x |-> Max(0, RoundDiv(left, calcGridColWidth(pp) + pp.margin[1])),
   y |-> Max(0, RoundDiv(top, pp.rowHeight + pp.margin[2]))]

----------------------------------------------------------------------------
(* GridItem *)

getPositionParams(p) ==
  [cols |-> p.cols, containerPadding |-> p.containerPadding,
   containerWidth |-> p.containerWidth, margin |-> p.margin,
   maxRows |-> p.maxRows, rowHeight |-> p.rowHeight]

ZeroPosition == [left |-> 0, top |-> 0]

\* The result of a drag handler that returns without doing anything.
DragNoop(st) ==
  [dragging |-> st.dragging, dragPosition |-> st.dragPosition,
   threw |-> FALSE, note |-> <<>>]

\* The result of a drag handler that throws: no assignment was made.
DragThrow(st) ==
  [dragging |-> st.dragging, dragPosition |-> st.dragPosition,
   threw |-> TRUE, note |-> <<>>]

\* The (itemId, x, y, {e, node, newPosition}) call of a host drag callback;
\* atCall is the accumulator as the callback finds it.
DragNote(name, p, xy, newPosition, isDragging, position) ==
  [name |-> name, i |-> p.i, x |-> xy.x, y |-> xy.y, newPosition |-> newPosition,
   atCall |-> [dragging |-> isDragging, dragPosition |-> position]]

\* A variant of StartPosition that leaves out the ancestor's scroll offsets.
StartPosition_NoScroll(p, node) ==
  LET cLeft == node.clientRect.left \div p.transformScale
      pLeft == node.parentRect.left \div p.transformScale
      cTop  == node.clientRect.top \div p.transformScale
      pTop  == node.parentRect.top \div p.transformScale
  IN [left |-> cLeft - pLeft, top |-> cTop - pTop]

\* The position onDragStart records: the node's bounding rect relative to
\* the positioned ancestor's, each divided by transformScale, plus the
\* ancestor's scroll offsets.
StartPosition(p, node) ==
  LET cLeft == node.clientRect.left \div p.transformScale
      pLeft == node.parentRect.left \div p.transformScale
      cTop  == node.clientRect.top \div p.transformScale
      pTop  == node.parentRect.top \div p.transformScale
  IN [left |-> cLeft - pLeft + node.scrollLeft,
      top  |-> cTop - pTop + node.scrollTop]

\* A variant of onDragStart that goes on without a positioned ancestor.
onDragStart_NoParentCheck(p, st, node) ==
  IF "onDragStart" \notin p.callbacks THEN DragNoop(st)
  ELSE
    LET newPosition == StartPosition(p, node)
        xy == calcXY(getPositionParams(p), newPosition.top, newPosition.left, p.w, p.h)
    IN [dragging |-> TRUE, dragPosition |-> newPosition, threw |-> FALSE,
        note |-> <<DragNote("onDragStart", p, xy, newPosition, TRUE, newPosition)>>]

\* onDragStart(e, {node}); st is the accumulator <dragging, dragPosition>.
onDragStart(p, st, node) ==
  IF "onDragStart" \notin p.callbacks THEN DragNoop(st)
  ELSE IF ~node.offsetParent THEN DragNoop(st)
  ELSE
    LET newPosition == StartPosition(p, node)
        xy == calcXY(getPositionParams(p), newPosition.top, newPosition.left, p.w, p.h)
    IN [dragging |-> TRUE, dragPosition |-> newPosition, threw |-> FALSE,
        note |-> <<DragNote("onDragStart", p, xy, newPosition, TRUE, newPosition)>>]

\* A variant of BoundedPosition that caps at the far boundaries only.
BoundedPosition_NoLowerBound(p, node, top, left) ==
  IF p.isBounded /\ node.offsetParent
  THEN
    LET bottomBoundary ==
          node.clientHeight - calcGridItemWHPx(p.h, p.rowHeight, p.margin[2])
        colWidth == calcGridColWidth(getPositionParams(p))
        rightBoundary ==
          p.containerWidth - calcGridItemWHPx(p.w, colWidth, p.margin[1])
    IN [top  |-> Min(top - p.containerPadding[2], bottomBoundary),
        left |-> Min(left - p.containerPadding[1], rightBoundary)]
  ELSE [top |-> top, left |-> left]

\* A variant of BoundedPosition that does not read isBounded.
BoundedPosition_IgnoresFlag(p, node, top, left) ==
  IF node.offsetParent
  THEN
    LET bottomBoundary ==
          node.clientHeight - calcGridItemWHPx(p.h, p.rowHeight, p.margin[2])
        colWidth == calcGridColWidth(getPositionParams(p))
        rightBoundary ==
          p.containerWidth - calcGridItemWHPx(p.w, colWidth, p.margin[1])
    IN [top  |-> clamp(top - p.containerPadding[2], 0, bottomBoundary),
        left |-> clamp(left - p.containerPadding[1], 0, rightBoundary)]
  ELSE [top |-> top, left |-> left]

\* The boundary calculation of onDrag: keeps items within the grid.
BoundedPosition(p, node, top, left) ==
  IF p.isBounded /\ node.offsetParent
  THEN
    LET bottomBoundary ==
          node.clientHeight - calcGridItemWHPx(p.h, p.rowHeight, p.margin[2])
        colWidth == calcGridColWidth(getPositionParams(p))
        rightBoundary ==
          p.containerWidth - calcGridItemWHPx(p.w, colWidth, p.margin[1])
    IN [top  |-> clamp(top - p.containerPadding[2], 0, bottomBoundary),
        left |-> clamp(left - p.containerPadding[1], 0, rightBoundary)]
  ELSE [top |-> top, left |-> left]

\* onDrag(e, {node, deltaX, deltaY})
onDrag(p, st, node, deltaX, deltaY) ==
  IF "onDrag" \notin p.callbacks THEN DragNoop(st)
  ELSE IF ~st.dragging THEN DragThrow(st)
  ELSE
    LET top  == st.dragPosition.top + deltaY
        left == st.dragPosition.left + deltaX
        b == BoundedPosition(p, node, top, left)
        newPosition == [left |-> b.left, top |-> b.top]
        xy == calcXY(getPositionParams(p), b.top, b.left, p.w, p.h)
    IN [dragging |-> st.dragging, dragPosition |-> newPosition, threw |-> FALSE,
        note |-> <<DragNote("onDrag", p, xy, newPosition, st.dragging, newPosition)>>]

\* A variant of onDragStop that reads the position after the reset.
onDragStop_ResetFirst(p, st, node) ==
  IF "onDragStop" \notin p.callbacks THEN DragNoop(st)
  ELSE IF ~st.dragging THEN DragThrow(st)
  ELSE
    LET newPosition == [left |-> ZeroPosition.left, top |-> ZeroPosition.top]
        xy == calcXY(getPositionParams(p), newPosition.top, newPosition.left, p.w, p.h)
    IN [dragging |-> FALSE, dragPosition |-> ZeroPosition, threw |-> FALSE,
        note |-> <<DragNote("onDragStop", p, xy, newPosition, FALSE, ZeroPosition)>>]

\* onDragStop(e, {node})
onDragStop(p, st, node) ==
  IF "onDragStop" \notin p.callbacks THEN DragNoop(st)
  ELSE IF ~st.dragging THEN DragThrow(st)
  ELSE
    LET newPosition == [left |-> st.dragPosition.left, top |-> st.dragPosition.top]
        xy == calcXY(getPositionParams(p), newPosition.top, newPosition.left, p.w, p.h)
    IN [dragging |-> FALSE, dragPosition |-> ZeroPosition, threw |-> FALSE,
        note |-> <<DragNote("onDragStop", p, xy, newPosition, FALSE, ZeroPosition)>>]

\* A variant of InjectorBranch that tests shouldDrag before the accumulator.
InjectorBranch_MoveFirst(isDragging, shouldDrag) ==
  IF shouldDrag THEN "onDrag"
  ELSE IF ~isDragging THEN "onDragStart"
  ELSE "none"

\* A variant of InjectorBranch that moves at every render of a dragging item.
InjectorBranch_AlwaysMoves(isDragging, shouldDrag) ==
  IF ~isDragging THEN "onDragStart"
  ELSE "onDrag"

\* The handler moveDroppingItem calls: "if (!this.dragging) ... else if
\* (shouldDrag) ...".
InjectorBranch(isDragging, shouldDrag) ==
  IF ~isDragging THEN "onDragStart"
  ELSE IF shouldDrag THEN "onDrag"
  ELSE "none"

\* A variant of InjectorDeltas that measures the move from the
\* droppingPosition of the render before.
InjectorDeltas_FromPrevious(droppingPosition, prevDroppingPosition, position) ==
  [deltaX |-> droppingPosition.left - prevDroppingPosition.left,
   deltaY |-> droppingPosition.top - prevDroppingPosition.top]

\* A variant of InjectorDeltas that passes the droppingPosition itself, as
\* the synthesized drag-start does.
InjectorDeltas_FromOrigin(droppingPosition, prevDroppingPosition, position) ==
  [deltaX |-> droppingPosition.left, deltaY |-> droppingPosition.top]

\* The deltas of the drag-move moveDroppingItem synthesizes: "const deltaX =
\* droppingPosition.left - this.dragPosition.left" and the same for top.
InjectorDeltas(droppingPosition, prevDroppingPosition, position) ==
  [deltaX |-> droppingPosition.left - position.left,
   deltaY |-> droppingPosition.top - position.top]

\* A variant of moveDroppingItem that ends the gesture when the
\* droppingPosition is withdrawn.
moveDroppingItem_StopsWhenAbsent(prevDropping, p, st, ref) ==
  LET none == [dragging |-> st.dragging, dragPosition |-> st.dragPosition,
               threw |-> FALSE, note |-> <<>>,
               synth |-> "none", deltaX |-> 0, deltaY |-> 0]
  IN
  IF p.droppingPosition = <<>>
  THEN [none EXCEPT !.dragging = FALSE, !.dragPosition = ZeroPosition]
  ELSE IF ref = <<>> THEN none
  ELSE
    LET droppingPosition == p.droppingPosition[1]
        node == ref[1]
        prevDroppingPosition ==
          IF prevDropping # <<>> THEN prevDropping[1] ELSE [left |-> 0, top |-> 0]
        shouldDrag ==
          \/ (st.dragging /\ droppingPosition.left # prevDroppingPosition.left)
          \/ droppingPosition.top # prevDroppingPosition.top
        branch == InjectorBranch(st.dragging, shouldDrag)
    IN
    IF branch = "onDragStart"
    THEN
      LET r == onDragStart(p, st, node)
      IN [dragging |-> r.dragging, dragPosition |-> r.dragPosition,
          threw |-> r.threw, note |-> r.note, synth |-> "onDragStart",
          deltaX |-> droppingPosition.left, deltaY |-> droppingPosition.top]
    ELSE IF branch = "onDrag"
    THEN
      LET d == InjectorDeltas(droppingPosition, prevDroppingPosition, st.dragPosition)
          deltaX == d.deltaX
          deltaY == d.deltaY
          r == onDrag(p, st, node, deltaX, deltaY)
      IN [dragging |-> r.dragging, dragPosition |-> r.dragPosition,
          threw |-> r.threw, note |-> r.note, synth |-> "onDrag",
          deltaX |-> deltaX, deltaY |-> deltaY]
    ELSE none

\* moveDroppingItem(prevProps): prevDropping is prevProps.droppingPosition,
\* ref is this.elementRef.current.  synth names the handler it called, with
\* the deltas it passed.
moveDroppingItem(prevDropping, p, st, ref) ==
  LET none == [dragging |-> st.dragging, dragPosition |-> st.dragPosition,
               threw |-> FALSE, note |-> <<>>,
               synth |-> "none", deltaX |-> 0, deltaY |-> 0]
  IN
  IF p.droppingPosition = <<>> THEN none
  ELSE IF ref = <<>> THEN none
  ELSE
    LET droppingPosition == p.droppingPosition[1]
        node == ref[1]
        prevDroppingPosition ==
          IF prevDropping # <<>> THEN prevDropping[1] ELSE [left |-> 0, top |-> 0]
        shouldDrag ==
          \/ (st.dragging /\ droppingPosition.left # prevDroppingPosition.left)
          \/ droppingPosition.top # prevDroppingPosition.top
        branch == InjectorBranch(st.dragging, shouldDrag)
    IN
    IF branch = "onDragStart"
    THEN
      LET r == onDragStart(p, st, node)
      IN [dragging |-> r.dragging, dragPosition |-> r.dragPosition,
          threw |-> r.threw, note |-> r.note, synth |-> "onDragStart",
          deltaX |-> droppingPosition.left, deltaY |-> droppingPosition.top]
    ELSE IF branch = "onDrag"
    THEN
      LET d == InjectorDeltas(droppingPosition, prevDroppingPosition, st.dragPosition)
          deltaX == d.deltaX
          deltaY == d.deltaY
          r == onDrag(p, st, node, deltaX, deltaY)
      IN [dragging |-> r.dragging, dragPosition |-> r.dragPosition,
          threw |-> r.threw, note |-> r.note, synth |-> "onDrag",
          deltaX |-> deltaX, deltaY |-> deltaY]
    ELSE none

----------------------------------------------------------------------------
(* Resize: helpers of ./calculateUtils and ./utils (not part of src/) *)

WestHandles == {"w", "nw", "sw"}

NorthHandles == {"n", "ne", "nw"}

\* gridToPixel: the pixel box of a grid rectangle; a drag override replaces
\* {top,left}, a resize override replaces {width,height} and {top,left}.
calcGridItemPosition(pp, x, y, w, h, dragOverride, resizeOverride) ==
  LET colWidth == calcGridColWidth(pp)
      base == [left   |-> x * (colWidth + pp.margin[1]),
               top    |-> y * (pp.rowHeight + pp.margin[2]),
               width  |-> calcGridItemWHPx(w, colWidth, pp.margin[1]),
               height |-> calcGridItemWHPx(h, pp.rowHeight, pp.margin[2])]
      dragged == IF dragOverride # <<>>
                 THEN [base EXCEPT !.left = dragOverride[1].left,
                                   !.top = dragOverride[1].top]
                 ELSE base
  IN IF resizeOverride # <<>>
     THEN [left |-> resizeOverride[1].left, top |-> resizeOverride[1].top,
           width |-> resizeOverride[1].width, height |-> resizeOverride[1].height]
     ELSE dragged

\* The resize direction resolver: the edge opposite the dragged handle stays
\* where it is; a west edge never moves left of the container's origin.
resizeItemInDirection(direction, currentSize, newSize, containerWidth) ==
  LET right  == currentSize.left + currentSize.width
      bottom == currentSize.top + currentSize.height
      left   == IF direction \in WestHandles
                THEN Max(0, right - newSize.width) ELSE currentSize.left
      top    == IF direction \in NorthHandles
                THEN bottom - newSize.height ELSE currentSize.top
  IN [left   |-> left,
      top    |-> top,
      width  |-> IF direction \in WestHandles THEN right - left ELSE newSize.width,
      height |-> newSize.height]

\* sizePixelToGrid: inverse of the size formulas, nearest cell count, never
\* negative.
calcWH(pp, width, height, x, y, handle) ==
  [w |-> Max(0, RoundDiv(width + pp.margin[1], calcGridColWidth(pp) + pp.margin[1])),
   h |-> Max(0, RoundDiv(height + pp.margin[2], pp.rowHeight + pp.margin[2]))]

----------------------------------------------------------------------------
(* GridItem: resize *)

\* { ...a, ...b }: the fields of b laid over those of a.
Spread(a, b) ==
  [f \in (DOMAIN a) \cup (DOMAIN b) |-> IF f \in DOMAIN b THEN b[f] ELSE a[f]]

\* A variant of CapW that takes minW as it is.
CapW_NoFloor(w, minW, maxW) == clamp(w, minW, maxW)

\* "Min/max capping" of the grid width: minW should be at least 1.
CapW(w, minW, maxW) == clamp(w, Max(minW, 1), maxW)

\* "Min/max capping" of the grid height.
CapH(h, minH, maxH) == clamp(h, minH, maxH)

\* A variant of ResizingAfter that stores the box on a stop as well.
ResizingAfter_NeverCleared(handlerName, updatedSize) == <<updatedSize>>

\* What onResizeHandler assigns to this.resizing when the event has a node.
ResizingAfter(handlerName, updatedSize) ==
  IF handlerName = "onResizeStop" THEN <<>> ELSE <<updatedSize>>

\* onResizeHandler(e, {node, size, handle}, position, handlerName); rst is the
\* accumulator <resizing, resizePosition>, node tells whether the event
\* carries a node.
onResizeHandler(p, rst, node, size, handle, position, handlerName) ==
  IF handlerName \notin p.callbacks
  THEN [resizing |-> rst.resizing, resizePosition |-> rst.resizePosition,
        note |-> <<>>]
  ELSE
    LET updatedSize ==
          IF node
          THEN resizeItemInDirection(handle, position, size, p.containerWidth)
          ELSE size
        wh == calcWH(getPositionParams(p), updatedSize.width, updatedSize.height,
                     p.x, p.y, handle)
        w == CapW(wh.w, p.minW, p.maxW)
        h == CapH(wh.h, p.minH, p.maxH)
    IN [resizing |-> IF node THEN ResizingAfter(handlerName, updatedSize)
                     ELSE rst.resizing,
        resizePosition |-> Spread(position, updatedSize),
        note |-> <<[name |-> handlerName, i |-> p.i, w |-> w, h |-> h,
                    node |-> node, size |-> updatedSize, handle |-> handle]>>]

\* The pos that render() computes and hands to mixinResizable.
RenderPos(p, isDragging, position, isResizing, box) ==
  calcGridItemPosition(getPositionParams(p), p.x, p.y, p.w, p.h,
                       IF isDragging THEN <<position>> ELSE <<>>,
                       IF isResizing # <<>> THEN <<box>> ELSE <<>>)

----------------------------------------------------------------------------
(* The inputs: what the host and the DOM supply *)

DragCallbacks == {"onDragStart", "onDrag", "onDragStop"}

ResizeCallbacks == {"onResizeStart", "onResize", "onResizeStop"}

\* Grid parameters, transformScale and the item's grid rectangle.  The
\* first: column width 20, an item 60 wide (wider than the container) and
\* 20 high.  The second: column width 10, an item 10 wide and 10 high, with
\* container padding.
GridConfigs ==
  { [cols |-> 2, containerWidth |-> 40, margin |-> <<0, 0>>,
     containerPadding |-> <<0, 0>>, rowHeight |-> 10, maxRows |-> 10,
     transformScale |-> 1, x |-> 1, y |-> 0, w |-> 3, h |-> 2],
    [cols |-> 2, containerWidth |-> 50, margin |-> <<10, 10>>,
     containerPadding |-> <<10, 10>>, rowHeight |-> 10, maxRows |-> 10,
     transformScale |-> 5, x |-> 0, y |-> 0, w |-> 1, h |-> 1] }

\* The size constraints of the item: the defaults with finite maxima, minima
\* below 1, and minima above the maxima.
Constraints ==
  { [minW |-> 1, maxW |-> 3, minH |-> 1, maxH |-> 3],
    [minW |-> 0, maxW |-> 2, minH |-> 0, maxH |-> 2],
    [minW |-> 3, maxW |-> 2, minH |-> 3, maxH |-> 2] }

\* defaultProps, with finite maxima.
DefaultConstraints == [minW |-> 1, maxW |-> 3, minH |-> 1, maxH |-> 3]

\* The DOM node as the drag handlers read it: without a positioned ancestor;
\* 50px right of and 50px below its ancestor; left of its ancestor, scrolled,
\* in a low container.
Nodes ==
  { [offsetParent |-> FALSE, clientRect |-> [left |-> 0, top |-> 0],
     parentRect |-> [left |-> 0, top |-> 0], scrollLeft |-> 0, scrollTop |-> 0,
     clientHeight |-> 0],
    [offsetParent |-> TRUE, clientRect |-> [left |-> 60, top |-> 70],
     parentRect |-> [left |-> 10, top |-> 20], scrollLeft |-> 0, scrollTop |-> 0,
     clientHeight |-> 40],
    [offsetParent |-> TRUE, clientRect |-> [left |-> 0, top |-> 0],
     parentRect |-> [left |-> 50, top |-> 0], scrollLeft |-> 0, scrollTop |-> 10,
     clientHeight |-> 10] }

\* deltaX, deltaY of a drag-move.
Deltas == { <<0, 0>>, <<30, -20>>, <<-60, 40>> }

\* The droppingPosition prop: absent, or a pixel position.
DroppingPositions ==
  { <<>>, <<[left |-> 10, top |-> 0]>>, <<[left |-> 10, top |-> 20]>> }

\* The sizes the resize gesture proposes, and its handles.
Sizes == { [width |-> 0, height |-> 0], [width |-> 50, height |-> 30] }

Handles == { "n", "s", "e", "w", "ne", "nw", "se", "sw" }

\* The resize gesture always hands over the node it acts on.
ResizeNodes == { TRUE }

InRange(position) ==
  /\ position.left \in -MaxPx..MaxPx
  /\ position.top \in -MaxPx..MaxPx

----------------------------------------------------------------------------
(* State *)

Accumulator == [dragging |-> dragging, dragPosition |-> dragPosition]

ResizeAccumulator == [resizing |-> resizing, resizePosition |-> resizePosition]

NoBox == [top |-> 0, left |-> 0, width |-> 0, height |-> 0]

\* The observation of an operation; fields an operation does not use keep
\* these values (a render reads the element ref only when a droppingPosition
\* is supplied; prevDropping is prevProps.droppingPosition of a render).
Observed ==
  [op |-> "constructor", node |-> <<>>, deltaX |-> 0, deltaY |-> 0,
   synth |-> "none", threw |-> FALSE, note |-> <<>>, handle |-> "", size |-> <<>>,
   prevDropping |-> <<>>]

PropsOf(cfg, cons, isBounded, callbacks, droppingPosition) ==
  [cols |-> cfg.cols, containerWidth |-> cfg.containerWidth, margin |-> cfg.margin,
   containerPadding |-> cfg.containerPadding, rowHeight |-> cfg.rowHeight,
   maxRows |-> cfg.maxRows, transformScale |-> cfg.transformScale,
   isBounded |-> isBounded, droppingPosition |-> droppingPosition,
   x |-> cfg.x, y |-> cfg.y, w |-> cfg.w, h |-> cfg.h,
   minW |-> cons.minW, maxW |-> cons.maxW, minH |-> cons.minH, maxH |-> cons.maxH,
   i |-> "a", callbacks |-> callbacks]

\* The instance after construction: the class fields' initial values; the
\* fields dragging and resizing are not set, which reads as falsy.
InitFields ==
  /\ mounted = FALSE
  /\ dragging = FALSE
  /\ dragPosition = [left |-> 0, top |-> 0]
  /\ resizing = <<>>
  /\ resizePosition = [top |-> 0, left |-> 0, width |-> 0, height |-> 0]
  /\ renderedPos = NoBox
  /\ last = Observed

----------------------------------------------------------------------------
(* Operations *)

\* render() followed by componentDidMount / componentDidUpdate: the resize
\* handlers get the position of this render, then the injector runs.
Rendered(op, prevDropping, np, ref) ==
  \E r \in { moveDroppingItem(prevDropping, np, Accumulator, ref) } :
     /\ InRange(r.dragPosition)
     /\ props' = np
     /\ mounted' = TRUE
     /\ renderedPos' = RenderPos(np, dragging, dragPosition, resizing, resizePosition)
     /\ dragging' = r.dragging
     /\ dragPosition' = r.dragPosition
     /\ last' = [Observed EXCEPT !.op = op,
                   !.node = IF np.droppingPosition = <<>> THEN <<>> ELSE ref,
                   !.prevDropping = prevDropping,
                   !.synth = r.synth,
                   !.deltaX = r.deltaX, !.deltaY = r.deltaY,
                   !.threw = r.threw, !.note = r.note]
     /\ UNCHANGED <<resizing, resizePosition>>

\* componentDidMount: moveDroppingItem({})
Mount(ref) ==
  /\ ~mounted
  /\ Rendered("componentDidMount", <<>>, props, ref)

\* componentDidUpdate(prevProps): the host rendered the item with props np.
Update(np, ref) ==
  /\ mounted
  /\ Rendered("componentDidUpdate", props.droppingPosition, np, ref)

\* The gesture layer delivers a drag-start.
DragStart(node) ==
  /\ mounted
  /\ \E r \in { onDragStart(props, Accumulator, node) } :
        /\ InRange(r.dragPosition)
        /\ dragging' = r.dragging
        /\ dragPosition' = r.dragPosition
        /\ last' = [Observed EXCEPT !.op = "onDragStart",
                      !.node = <<node>>, !.threw = r.threw, !.note = r.note]
  /\ UNCHANGED <<props, mounted, resizing, resizePosition, renderedPos>>

\* The gesture layer delivers a drag-move.
Drag(node, deltaX, deltaY) ==
  /\ mounted
  /\ \E r \in { onDrag(props, Accumulator, node, deltaX, deltaY) } :
        /\ InRange(r.dragPosition)
        /\ dragging' = r.dragging
        /\ dragPosition' = r.dragPosition
        /\ last' = [Observed EXCEPT !.op = "onDrag",
                      !.node = <<node>>, !.deltaX = deltaX, !.deltaY = deltaY,
                      !.threw = r.threw, !.note = r.note]
  /\ UNCHANGED <<props, mounted, resizing, resizePosition, renderedPos>>

\* The gesture layer delivers a drag-stop.
DragStop(node) ==
  /\ mounted
  /\ \E r \in { onDragStop(props, Accumulator, node) } :
        /\ dragging' = r.dragging
        /\ dragPosition' = r.dragPosition
        /\ last' = [Observed EXCEPT !.op = "onDragStop",
                      !.threw = r.threw, !.note = r.note]
  /\ UNCHANGED <<props, mounted, resizing, resizePosition, renderedPos>>

\* The gesture layer delivers a resize event to the handler curried with the
\* position of the last render.
Resize(handlerName, node, size, handle) ==
  /\ mounted
  /\ \E r \in { onResizeHandler(props, ResizeAccumulator, node, size, handle,
                                  renderedPos, handlerName) } :
        /\ resizing' = r.resizing
        /\ resizePosition' = r.resizePosition
        /\ last' = [Observed EXCEPT !.op = handlerName, !.node = <<node>>,
                      !.handle = handle, !.size = <<size>>, !.note = r.note]
  /\ UNCHANGED <<props, mounted, dragging, dragPosition, renderedPos>>

----------------------------------------------------------------------------
(* The drag gesture and the injector *)

\* callbacks with c registered if it was not, and dropped if it was.
Toggle(callbacks, c) ==
  IF c \in callbacks THEN callbacks \ {c} ELSE callbacks \cup {c}

\* The host changes one thing per render: it registers or drops one drag
\* callback, or it supplies a droppingPosition (which may be the one of the
\* render before) or none.
DragRenders ==
  { [props EXCEPT !.callbacks = Toggle(@, c)] : c \in DragCallbacks }
  \cup { [props EXCEPT !.droppingPosition = d] : d \in DroppingPositions }

InitDrag ==
  /\ InitFields
  /\ \E cfg \in GridConfigs, isBounded \in BOOLEAN, d \in DroppingPositions :
       props = PropsOf(cfg, DefaultConstraints, isBounded, DragCallbacks, d)

\* this.elementRef.current at a render that reads it: null, or the node.
Refs(np) ==
  IF np.droppingPosition = <<>> THEN { <<>> }
  ELSE { <<>> } \cup { <<n>> : n \in Nodes }

NextDrag ==
  \/ \E ref \in Refs(props) : Mount(ref)
  \/ \E np \in DragRenders : \E ref \in Refs(np) : Update(np, ref)
  \/ \E node \in Nodes : DragStart(node)
  \/ \E node \in Nodes, d \in Deltas : Drag(node, d[1], d[2])
  \/ DragStop(CHOOSE node \in Nodes : node.offsetParent)

SpecDrag == InitDrag /\ [][NextDrag]_vars

----------------------------------------------------------------------------
(* The resize gesture *)

\* The boxes of the resize accumulator are kept within the pixel range, below
\* and right of the container's origin.
BoxInRange(box) ==
  /\ box.left \in 0..MaxPx
  /\ box.top \in 0..MaxPx
  /\ box.left + box.width \in 0..MaxPx
  /\ box.top + box.height \in 0..MaxPx

\* The host renders the item again, registering or dropping one resize
\* callback or changing nothing.
ResizeRenders ==
  { [props EXCEPT !.callbacks = Toggle(@, c)] : c \in ResizeCallbacks }
  \cup { props }

InitResize ==
  /\ InitFields
  /\ \E cfg \in GridConfigs, cons \in Constraints :
       props = PropsOf(cfg, cons, FALSE, ResizeCallbacks, <<>>)

NextResize ==
  \/ Mount(<<>>)
  \/ \E np \in ResizeRenders : Update(np, <<>>)
  \/ \E handlerName \in ResizeCallbacks, node \in ResizeNodes, size \in Sizes,
        handle \in Handles :
       /\ Resize(handlerName, node, size, handle)
       /\ BoxInRange(resizePosition')

SpecResize == InitResize /\ [][NextResize]_vars

----------------------------------------------------------------------------
(* Properties of the drag accumulator (checked under SpecDrag) *)

IsRender(op) == op \in {"componentDidMount", "componentDidUpdate"}

\* C1: a drag-move or a drag-stop delivered while the accumulator is idle
\* raises the invalid-sequence error, whichever callbacks are registered.
C1_IdleMoveOrStopRaises ==
  [][(last'.op \in {"onDrag", "onDragStop"} /\ ~dragging) => last'.threw]_vars

\* The accumulator a drag handler would leave behind had the host registered
\* its callback.
WithDragCallbacks(op, node, deltaX, deltaY) ==
  LET p == [props EXCEPT !.callbacks = DragCallbacks]
  IN CASE op = "onDragStart" -> onDragStart(p, Accumulator, node)
       [] op = "onDrag"      -> onDrag(p, Accumulator, node, deltaX, deltaY)
       [] op = "onDragStop"  -> onDragStop(p, Accumulator, node)

\* C2: after each drag handler the accumulator is what it would be with the
\* handler's callback registered: an absent callback suppresses only the
\* notification.
C2_AbsentDragCallbackKeepsState ==
  [][last'.op \in DragCallbacks =>
       \E r \in { WithDragCallbacks(last'.op,
                                    IF last'.node # <<>> THEN last'.node[1]
                                    ELSE CHOOSE n \in Nodes : n.offsetParent,
                                    last'.deltaX, last'.deltaY) } :
         /\ dragging' = r.dragging
         /\ dragPosition' = r.dragPosition]_vars

\* C4: a drag-start delivered while the accumulator is dragging is rejected:
\* it leaves currentPixelPosition alone and emits no start notification.
C4_SecondStartRejected ==
  [][(last'.op = "onDragStart" /\ dragging) =>
       (dragPosition' = dragPosition /\ last'.note = <<>>)]_vars

\* A drag-move reached the drag-move handler: delivered by the gesture layer
\* or synthesized by the injector.
MoveDelivered == last.op = "onDrag" \/ (IsRender(last.op) /\ last.synth = "onDrag")

rightBoundaryOf(p) ==
  p.containerWidth
    - calcGridItemWHPx(p.w, calcGridColWidth(getPositionParams(p)), p.margin[1])

bottomBoundaryOf(p, node) ==
  node.clientHeight - calcGridItemWHPx(p.h, p.rowHeight, p.margin[2])

\* C5 as stated: with bounded mode enabled, after every drag-move the handler
\* processes the stored position lies within [0, containerWidth - itemWidth]
\* and [0, containerHeight - itemHeight], items larger than the container and
\* nodes without a positioned ancestor included.
C5_BoundedAlways ==
  (MoveDelivered /\ props.isBounded /\ last.note # <<>>) =>
    /\ dragPosition.left >= 0
    /\ dragPosition.left <= rightBoundaryOf(props)
    /\ dragPosition.top >= 0
    /\ dragPosition.top <= bottomBoundaryOf(props, last.node[1])

\* C5 amended: with bounded mode enabled, after every drag-move the handler
\* processes on a node with a positioned ancestor, left and top are not
\* negative, and each is at most its boundary on an axis where the item is
\* not larger than the container.
C5_BoundedWhenItFits ==
  (MoveDelivered /\ props.isBounded /\ last.note # <<>> /\ last.node[1].offsetParent) =>
    /\ dragPosition.left >= 0
    /\ dragPosition.top >= 0
    /\ rightBoundaryOf(props) >= 0 => dragPosition.left <= rightBoundaryOf(props)
    /\ bottomBoundaryOf(props, last.node[1]) >= 0 =>
         dragPosition.top <= bottomBoundaryOf(props, last.node[1])

\* A bounded drag-move was stopped at the right boundary of a container the
\* item fits in.
C5_Witness ==
  /\ last.op = "onDrag" /\ props.isBounded /\ last.note # <<>>
  /\ last.node[1].offsetParent
  /\ last.deltaX > 0
  /\ rightBoundaryOf(props) > 0
  /\ dragPosition.left = rightBoundaryOf(props)
  /\ bottomBoundaryOf(props, last.node[1]) >= 0

\* C8: a drag-stop on a dragging accumulator with onDragStop registered emits
\* a stop notification whose newPosition is the position the accumulator held
\* before the stop, and leaves the accumulator idle at {0,0}.
C8_StopCarriesLastPosition ==
  [][last'.op = "onDragStop" =>
       /\ (dragging /\ "onDragStop" \in props.callbacks) => last'.note # <<>>
       /\ last'.note # <<>> =>
            /\ dragging
            /\ last'.note[1].name = "onDragStop"
            /\ last'.note[1].newPosition = dragPosition
            /\ ~dragging'
            /\ dragPosition' = ZeroPosition]_vars

\* A stop notification carried a position other than the reset value.
C8_Witness ==
  /\ last.op = "onDragStop" /\ last.note # <<>>
  /\ last.note[1].newPosition # ZeroPosition
  /\ ~dragging /\ dragPosition = ZeroPosition

\* C10: a render without a droppingPosition synthesizes no drag event and
\* leaves the drag accumulator unchanged; a render with a droppingPosition, a
\* mounted node and an idle accumulator synthesizes a drag-start (and no
\* drag-move).
C10_InjectorOnRender ==
  [][IsRender(last'.op) =>
       /\ props'.droppingPosition = <<>> =>
            /\ last'.synth = "none" /\ last'.note = <<>>
            /\ dragging' = dragging /\ dragPosition' = dragPosition
       /\ (props'.droppingPosition # <<>> /\ last'.node # <<>> /\ ~dragging) =>
            last'.synth = "onDragStart"]_vars

\* A render synthesized a drag-start that put the accumulator to dragging.
C10_Witness ==
  /\ last.op = "componentDidUpdate" /\ last.synth = "onDragStart"
  /\ last.note # <<>> /\ dragging

----------------------------------------------------------------------------
(* Properties of the resize accumulator (checked under SpecResize) *)

IsResize(op) == op \in ResizeCallbacks

\* C3: after each resize handler the resize state is what it would be with
\* the handler's callback registered: only the notification is skipped.
C3_AbsentResizeCallbackKeepsState ==
  [][IsResize(last'.op) =>
       \E r \in { onResizeHandler([props EXCEPT !.callbacks = ResizeCallbacks],
                                  ResizeAccumulator, last'.node[1], last'.size[1],
                                  last'.handle, renderedPos, last'.op) } :
         /\ resizing' = r.resizing
         /\ resizePosition' = r.resizePosition]_vars

\* C6: every resize notification carries max(minW,1) <= w <= maxW and
\* minH <= h <= maxH, provided max(minW,1) <= maxW and minH <= maxH.
C6_NotifiedSizeWithinConstraints ==
  (IsResize(last.op) /\ last.note # <<>>
     /\ Max(props.minW, 1) <= props.maxW /\ props.minH <= props.maxH) =>
    /\ last.note[1].w >= Max(props.minW, 1)
    /\ last.note[1].w <= props.maxW
    /\ last.note[1].h >= props.minH
    /\ last.note[1].h <= props.maxH

\* A notification whose width was capped at maxW.
C6_Witness ==
  /\ IsResize(last.op) /\ last.note # <<>>
  /\ Max(props.minW, 1) <= props.maxW /\ props.minH <= props.maxH
  /\ calcWH(getPositionParams(props), last.note[1].size.width,
            last.note[1].size.height, props.x, props.y, last.handle).w > props.maxW
  /\ last.note[1].w = props.maxW

\* C7: with the callback registered, a resize-stop leaves the state
\* not-resizing; a resize-start or resize leaves it resizing, with the live
\* override box equal to the anchor box overlaid with the box the resolver
\* computes for the event.
C7_ResizeStateFollowsEvent ==
  (IsResize(last.op) /\ last.note # <<>>) =>
    IF last.op = "onResizeStop"
    THEN resizing = <<>>
    ELSE /\ resizing # <<>>
         /\ resizePosition =
              Spread(renderedPos,
                     resizeItemInDirection(last.handle, renderedPos, last.size[1],
                                           props.containerWidth))
         /\ RenderPos(props, dragging, dragPosition, resizing, resizePosition)
              = resizePosition

\* A resize by the north-west handle moved the box's origin.
C7_Witness ==
  /\ last.op = "onResize" /\ last.note # <<>> /\ last.handle = "nw"
  /\ resizing # <<>>
  /\ resizePosition.left # renderedPos.left
  /\ resizePosition.top # renderedPos.top

\* C9: every grid size a resize notification reports has w >= 1 and h >= 1.
C9_NotifiedSizeAtLeastOne ==
  (IsResize(last.op) /\ last.note # <<>>) =>
    (last.note[1].w >= 1 /\ last.note[1].h >= 1)

----------------------------------------------------------------------------
(* Properties of the injector's synthesized moves (checked under SpecDrag) *)

InjectedMove == IsRender(last.op) /\ last.synth = "onDrag"

\* C11 as stated: the deltas of a drag-move the injector synthesizes are the
\* new droppingPosition's left and top minus those of the droppingPosition of
\* the render before.
C11_DeltasFromPreviousRender ==
  (InjectedMove /\ last.prevDropping # <<>>) =>
    /\ last.deltaX = props.droppingPosition[1].left - last.prevDropping[1].left
    /\ last.deltaY = props.droppingPosition[1].top - last.prevDropping[1].top

\* C11: the deltas of a drag-move the injector synthesizes are the new
\* droppingPosition's left and top minus the left and top the accumulator
\* held when the render ran.
C11_DeltasFromCurrentPosition ==
  [][(IsRender(last'.op) /\ last'.synth = "onDrag") =>
       /\ last'.deltaX = props'.droppingPosition[1].left - dragPosition.left
       /\ last'.deltaY = props'.droppingPosition[1].top - dragPosition.top]_vars

\* An injected move whose deltas are not the difference of the two
\* droppingPositions.
C11_Witness ==
  /\ InjectedMove
  /\ last.prevDropping # <<>>
  /\ last.note # <<>>
  /\ last.deltaX # props.droppingPosition[1].left - last.prevDropping[1].left

----------------------------------------------------------------------------
(* Properties of the drag-start (checked under SpecDrag) *)

\* The observation l is a drag-start, delivered by the gesture layer or
\* synthesized by the injector.
IsStart(l) ==
  /\ l.op = "onDragStart" \/ (IsRender(l.op) /\ l.synth = "onDragStart")
  /\ l.node # <<>>

\* C12: a drag-start on a node without a positioned ancestor emits no
\* notification, raises no error and leaves the dragging flag and the
\* recorded position as they were.
C12_StartWithoutAncestorIgnored ==
  [][(IsStart(last') /\ ~last'.node[1].offsetParent) =>
       /\ last'.note = <<>>
       /\ ~last'.threw
       /\ dragging' = dragging
       /\ dragPosition' = dragPosition]_vars

\* A drag-start with the callback registered, on a node without a positioned
\* ancestor, that found the accumulator dragging away from the origin.
C12_Witness ==
  /\ IsStart(last)
  /\ ~last.node[1].offsetParent
  /\ "onDragStart" \in props.callbacks
  /\ dragging
  /\ dragPosition # ZeroPosition

\* C13: a drag-start with the callback registered, on a node with a
\* positioned ancestor, records per axis (node rect - ancestor rect) /
\* transformScale + ancestor scroll, sets the dragging flag, and emits one
\* start notification whose newPosition is the recorded position and whose
\* x, y are its grid conversion; a node 50px right of and below its ancestor,
\* unscrolled, at scale 1, records {left: 50, top: 50}.
C13_StartRecordsOffset ==
  (IsStart(last) /\ "onDragStart" \in props.callbacks /\ last.node[1].offsetParent) =>
    LET n == last.node[1]
        dLeft == n.clientRect.left - n.parentRect.left
        dTop == n.clientRect.top - n.parentRect.top
        xy == calcXY(getPositionParams(props), dragPosition.top, dragPosition.left,
                     props.w, props.h)
    IN /\ dragging
       /\ dragPosition.left = (dLeft \div props.transformScale) + n.scrollLeft
       /\ dragPosition.top = (dTop \div props.transformScale) + n.scrollTop
       /\ ~last.threw
       /\ Len(last.note) = 1
       /\ last.note[1].name = "onDragStart"
       /\ last.note[1].newPosition = dragPosition
       /\ last.note[1].x = xy.x
       /\ last.note[1].y = xy.y
       /\ (dLeft = 50 /\ dTop = 50 /\ n.scrollLeft = 0 /\ n.scrollTop = 0
             /\ props.transformScale = 1)
            => dragPosition = [left |-> 50, top |-> 50]

\* A drag-start at scale 1 on the node 50px right of and below its ancestor.
C13_Witness ==
  /\ IsStart(last)
  /\ last.node[1].offsetParent
  /\ last.node[1].clientRect.left - last.node[1].parentRect.left = 50
  /\ last.node[1].clientRect.top - last.node[1].parentRect.top = 50
  /\ props.transformScale = 1
  /\ last.note # <<>>
  /\ last.note[1].newPosition = [left |-> 50, top |-> 50]

----------------------------------------------------------------------------
(* Properties of the drag-move (checked under SpecDrag) *)

\* The observation l is a drag-move that reached the host's callback,
\* delivered by the gesture layer or synthesized by the injector.
IsNotifiedMove(l) ==
  /\ l.op = "onDrag" \/ (IsRender(l.op) /\ l.synth = "onDrag")
  /\ l.note # <<>>

\* C14: with bounded mode disabled every drag-move adds its deltas to the
\* recorded position and notifies that sum, so that after a start that
\* recorded p0 and moves d1..dn the position is p0 + d1 + ... + dn and the
\* k-th notification carries p0 + d1 + ... + dk.
C14_UnboundedMovesAccumulate ==
  [][(IsNotifiedMove(last') /\ ~props'.isBounded) =>
       /\ dragging /\ dragging'
       /\ dragPosition'.left = dragPosition.left + last'.deltaX
       /\ dragPosition'.top = dragPosition.top + last'.deltaY
       /\ Len(last'.note) = 1
       /\ last'.note[1].name = "onDrag"
       /\ last'.note[1].newPosition = dragPosition']_vars

\* An unbounded gesture move with non-zero deltas, on a node with a
\* positioned ancestor, that ends left of and below the container.
C14_Witness ==
  /\ last.op = "onDrag"
  /\ last.note # <<>>
  /\ ~props.isBounded
  /\ last.node[1].offsetParent
  /\ last.deltaX # 0
  /\ dragPosition.left < 0
  /\ dragPosition.top > last.node[1].clientHeight

\* C15: a render of a dragging item whose droppingPosition has the left and
\* the top of the droppingPosition of the render before synthesizes no
\* drag-move, emits no notification and leaves the recorded position alone.
C15_SameDroppingPositionNoMove ==
  [][(/\ last'.op = "componentDidUpdate"
      /\ dragging
      /\ props'.droppingPosition # <<>>
      /\ last'.prevDropping # <<>>
      /\ props'.droppingPosition[1].left = last'.prevDropping[1].left
      /\ props'.droppingPosition[1].top = last'.prevDropping[1].top) =>
       /\ last'.synth = "none"
       /\ last'.note = <<>>
       /\ ~last'.threw
       /\ dragging'
       /\ dragPosition' = dragPosition]_vars

\* Such a render with the element mounted and onDrag registered, of an item
\* whose recorded position is not the droppingPosition.
C15_Witness ==
  /\ last.op = "componentDidUpdate"
  /\ dragging
  /\ props.droppingPosition # <<>>
  /\ last.prevDropping = props.droppingPosition
  /\ last.node # <<>>
  /\ "onDrag" \in props.callbacks
  /\ dragPosition.left # props.droppingPosition[1].left
  /\ last.synth = "none"

----------------------------------------------------------------------------
(* Both gestures on one item *)

\* The host supplies a droppingPosition or none, or registers or drops the
\* drag-stop callback.
GestureRenders ==
  { [props EXCEPT !.droppingPosition = d] : d \in DroppingPositions }
  \cup { [props EXCEPT !.callbacks = Toggle(@, "onDragStop")] }

\* The handles of the resize events that reach a dragging item.
GestureHandles == { "se", "nw" }

\* The grid the item is dragged and resized in: the one at scale 1.
GestureConfigs == { cfg \in GridConfigs : cfg.transformScale = 1 }

InitGesture ==
  /\ InitFields
  /\ \E cfg \in GestureConfigs, d \in DroppingPositions :
       props = PropsOf(cfg, DefaultConstraints, FALSE,
                       DragCallbacks \cup ResizeCallbacks, d)

NextGesture ==
  \/ \E ref \in Refs(props) : Mount(ref)
  \/ \E np \in GestureRenders : \E ref \in Refs(np) : Update(np, ref)
  \/ \E node \in Nodes : DragStart(node)
  \/ \E node \in Nodes, d \in Deltas : Drag(node, d[1], d[2])
  \/ DragStop(CHOOSE node \in Nodes : node.offsetParent)
  \/ \E handlerName \in ResizeCallbacks, node \in ResizeNodes, size \in Sizes,
        handle \in GestureHandles :
       /\ Resize(handlerName, node, size, handle)
       /\ BoxInRange(resizePosition')

SpecGesture == InitGesture /\ [][NextGesture]_vars

\* C16: the dragging flag is dropped only by a drag-stop that reached the
\* host's callback; renders (with or without a droppingPosition),
\* drag-starts, drag-moves and resize events leave it set.
C16_OnlyStopEndsDragging ==
  [][(dragging /\ ~dragging') =>
       /\ last'.op = "onDragStop"
       /\ last'.note # <<>>
       /\ last'.note[1].name = "onDragStop"]_vars

\* A resize event delivered to a dragging item whose droppingPosition was
\* withdrawn.
C16_Witness ==
  /\ dragging
  /\ last.op \in ResizeCallbacks
  /\ last.note # <<>>
  /\ props.droppingPosition = <<>>
  /\ resizing # <<>>

----------------------------------------------------------------------------
(* Properties of the drag-stop and of injected and bounded moves (checked
   under SpecDrag) *)

\* C17: when the host's onDragStop callback is called the accumulator is
\* still dragging and still holds the last position of the gesture; the
\* reset comes after the notification.
C17_StopNotifiesBeforeReset ==
  (last.op = "onDragStop" /\ last.note # <<>>) =>
    /\ last.note[1].atCall.dragging
    /\ last.note[1].atCall.dragPosition = last.note[1].newPosition

\* C18: with bounded mode disabled and onDrag registered, a drag-move the
\* injector synthesizes leaves the recorded position equal to the supplied
\* droppingPosition, whatever was recorded before.
C18_InjectedMoveLandsOnDroppingPosition ==
  (InjectedMove /\ ~props.isBounded /\ "onDrag" \in props.callbacks) =>
    /\ dragPosition.left = props.droppingPosition[1].left
    /\ dragPosition.top = props.droppingPosition[1].top
    /\ last.note # <<>>
    /\ last.note[1].newPosition = dragPosition

\* Such a move of an item that was recorded away from the droppingPosition
\* on both axes.
C18_Witness ==
  /\ InjectedMove
  /\ ~props.isBounded
  /\ "onDrag" \in props.callbacks
  /\ last.deltaX # 0
  /\ last.deltaY # 0
  /\ dragPosition.left = props.droppingPosition[1].left
  /\ dragPosition.top = props.droppingPosition[1].top

\* The position pos lies within the bounds of the bounded mode.
WithinBounds(p, node, pos) ==
  /\ 0 <= pos.left /\ pos.left <= rightBoundaryOf(p)
  /\ 0 <= pos.top /\ pos.top <= bottomBoundaryOf(p, node)

\* C19: with bounded mode enabled and a positioned ancestor, a drag-move with
\* zero deltas on a recorded position that lies within the bounds leaves the
\* position as it was, whatever the container padding.
C19_ZeroMoveKeepsBoundedPosition ==
  [][(/\ IsNotifiedMove(last')
      /\ props'.isBounded
      /\ last'.node[1].offsetParent
      /\ last'.deltaX = 0 /\ last'.deltaY = 0
      /\ WithinBounds(props', last'.node[1], dragPosition)) =>
       dragPosition' = dragPosition]_vars

====
